---- MODULE Spec2Model ----
(***************************************************************************)
(* Model of src/main.py: the synthetic market-data generator               *)
(* (generate_random_walk and generate_indics inside main) and the summary  *)
(* that main prints.                                                       *)
(*                                                                         *)
(* Arithmetic.  Prices are fixed-point integers in thousandths (2.0 is     *)
(* 2000, 0.15 is 150), so that round(x, 2) is a real conversion: it maps   *)
(* a value to the nearest multiple of 10 thousandths.  Dates are proleptic *)
(* Gregorian day ordinals (datetime.toordinal), a timedelta is a number of *)
(* days.                                                                   *)
(*                                                                         *)
(* Random source.  The Mersenne Twister behind np.random is not computed.  *)
(*  - Spec and SpecWalk take every draw as a nondeterministic choice from  *)
(*    a small set of values in the support of the distribution drawn from. *)
(*  - SpecSeeded runs the whole program, with the loop counts of the       *)
(*    source, on a deterministic stand-in generator (a linear congruential *)
(*    state advanced once per draw), two process runs in a row.            *)
(***************************************************************************)
EXTENDS Integers, Sequences, FiniteSets, TLC

VARIABLES
    pc,                  \* position of the run
    cfg,                 \* num_days, start_value, volatility, loop counts
    rng,                 \* state of the process-wide np.random generator
    run,                 \* which process run this is (1, 2)
    prev,                \* what the previous process run produced
    steps,               \* the normal draws taken by generate_random_walk
    random_walk_prices,  \* the walk generate_random_walk returned
    trades,              \* list of indicative trade dicts
    confirmed_trades,    \* list of confirmed trade dicts
    draws,               \* the calls made to the random source, in order
    err,                 \* the exception that ended the run, "" if none
    summary              \* what main printed, <<>> before it prints

vars == <<pc, cfg, rng, run, prev, steps, random_walk_prices, trades,
          confirmed_trades, draws, err, summary>>

----------------------------------------------------------------------------
(* Bounds of the model.                                                    *)

\* Horizon (num_days) used by Spec instead of the source's 120.
NumDays == 2
\* Largest num_steps SpecWalk passes to generate_random_walk.
MaxSteps == 4
\* Number of process runs SpecSeeded makes.
Runs == 2

\* (indicative, confirmed) loop counts Spec runs instead of (50, 15).
LoopCounts == {<<1, 1>>, <<2, 0>>, <<0, 2>>}

\* Standard-normal values, in tenths of a standard deviation, a normal draw
\* takes in the model.  The far negative one stands for the drift that the
\* 120-day walk accumulates over many steps and the short walk cannot.
ZTenths == <<-114, 7>>
\* Values in [0.2, 0.5) a uniform draw takes in the model (thousandths).
UniformPoints == <<200, 495>>
\* Arguments SpecWalk passes to generate_random_walk.
StartValues == {0, 2000}
Volatilities == {-200, 0, 200}

----------------------------------------------------------------------------
(* Program constants.                                                      *)

DefaultStartValue == 2000
DefaultVolatility == 200
StartDate == 739283
SourceNumDays == 120
NumIndicOffByOne == 50 - 1
NumIndicTrades == 50
NumConfirmed == 15
LineDuration == 5
NoiseScale == 150
UniformLow == 200
UniformHigh == 500
Seed == 33

counterparties == <<"BP", "Total", "Chevron", "ExxonMobel", "Vitol", "Trafigura">>
TradeTypes == <<"Bid", "Offer">>
TradeTypeP == <<5, 5>>
IndicVolumesTypo == <<500, 750, 1000, 2000>>
IndicVolumes == <<500, 950, 1000, 2000>>
IndicVolumeP == <<1, 4, 4, 1>>
ConfirmedVolumes == <<500, 750, 1000>>

----------------------------------------------------------------------------
(* Helpers.                                                                *)

Range(s) == {s[i] : i \in 1..Len(s)}

\* round(x, 2): nearest multiple of 0.01, ties to the even multiple.
Round2(x) ==
    LET q == x \div 10
        r == x % 10
    IN  IF r < 5 THEN 10 * q
        ELSE IF r > 5 THEN 10 * (q + 1)
        ELSE IF q % 2 = 0 THEN 10 * q ELSE 10 * (q + 1)

\* s[lo] + ... + s[hi], split in halves to keep the evaluation shallow.
RECURSIVE RangeSum(_, _, _)
RangeSum(s, lo, hi) ==
    IF lo > hi THEN 0
    ELSE IF lo = hi THEN s[lo]
    ELSE LET mid == (lo + hi) \div 2
         IN  RangeSum(s, lo, mid) + RangeSum(s, mid + 1, hi)
PartialSum(s, k) == RangeSum(s, 1, k)

np_cumsum_exclusive(s) == [i \in 1..Len(s) |-> PartialSum(s, i - 1)]
\* np.cumsum: element i is the sum of the first i elements.
np_cumsum(s) == [i \in 1..Len(s) |-> PartialSum(s, i)]

\* walk = start_value + np.cumsum(steps)
WalkOf(start_value, st) ==
    LET c == np_cumsum(st) IN [i \in 1..Len(c) |-> start_value + c[i]]

\* np.random.normal(loc=0, scale, size) raises ValueError for a negative
\* scale or a negative size, before it draws.
NormalRaisesOnZero(scale, size) == scale <= 0 \/ size <= 0
NormalRaises(scale, size) == scale < 0 \/ size < 0

\* One draw of np.random.normal(0, scale) at z tenths of a deviation.
NormalValue(scale, z) == (scale * z) \div 10
NormalDraws(scale) == {NormalValue(scale, ZTenths[k]) : k \in 1..Len(ZTenths)}

\* np.random.randint(low, high): an integer of low..high-1.
RandintInclusive(low, high) == low..high
Randint(low, high) == low..(high - 1)

\* np.random.uniform(low, high): a value of [low, high).
UniformDraws(low, high) == {u \in Range(UniformPoints) : low <= u /\ u < high}

\* np.random.choice(a, p): an element of a whose probability is not 0.
ChoiceDraws(a, p) == {a[k] : k \in {j \in 1..Len(a) : p[j] > 0}}
\* np.random.choice(a): an element of a.
ChoiceUniform(a) == Range(a)

\* random_walk_prices[date_index] on a numpy array: a negative index counts
\* from the end, an index outside -len..len-1 raises IndexError.
IndexOK(walk, k) == -Len(walk) <= k /\ k < Len(walk)
WalkLookup(walk, k) == IF k >= 0 THEN walk[k + 1] ELSE walk[Len(walk) + k + 1]

\* The dict appended to trades in iteration i.
IndicRecordIdFromOne(i, bl_date, base_price_diff, noise, counterparty, trade_type, volume) ==
    LET price_diff == Round2(base_price_diff + noise)
    IN  [counterparty |-> counterparty,
         type |-> trade_type,
         volume |-> volume,
         bl_date |-> bl_date,
         price_differential |->
             IF trade_type = "Offer" THEN price_diff ELSE -price_diff,
         unique_id |-> i + 1]
IndicRecord(i, bl_date, base_price_diff, noise, counterparty, trade_type, volume) ==
    LET price_diff == Round2(base_price_diff + noise)
    IN  [counterparty |-> counterparty,
         type |-> trade_type,
         volume |-> volume,
         bl_date |-> bl_date,
         price_differential |->
             IF trade_type = "Offer" THEN price_diff ELSE -price_diff,
         unique_id |-> i]

\* The dict appended to confirmed_trades.
ConfirmedRecordSameSide(bl_date, base_price, u_buy, u_sell, volume) ==
    [bl_date |-> bl_date,
     line_end_date |-> bl_date + LineDuration,
     buy_price |-> Round2(base_price - u_buy),
     sell_price |-> Round2(base_price - u_sell),
     volume |-> volume]
ConfirmedRecord(bl_date, base_price, u_buy, u_sell, volume) ==
    [bl_date |-> bl_date,
     line_end_date |-> bl_date + LineDuration,
     buy_price |-> Round2(base_price - u_buy),
     sell_price |-> Round2(base_price + u_sell),
     volume |-> volume]

\* The order of the calls to the random source in one iteration of the
\* indicative loop, and of the confirmed loop.
IndicDrawOrderSideFirst == <<"bl_date", "noise", "trade_type", "counterparty", "volume">>
IndicDrawOrder == <<"bl_date", "noise", "counterparty", "trade_type", "volume">>
ConfirmedDrawOrder == <<"bl_date", "buy_offset", "sell_offset", "volume">>

\* What main prints after generate_indics returned.
SummaryOf(df) ==
    [total |-> Len(df),
     sell |-> Cardinality({i \in 1..Len(df) : df[i].type = "Offer"}),
     buy |-> Cardinality({i \in 1..Len(df) : df[i].type = "Bid"}),
     describe_count |-> Len(df)]

NoOutput == [walk |-> <<>>, trades |-> <<>>, confirmed |-> <<>>]

----------------------------------------------------------------------------
(* The process-wide generator.                                             *)

\* States the generator may hold at import, before np.random.seed(33):
\* numpy initialises it from the operating system's entropy.
Entropy == {4711, 9001}

\* Standard-normal values, in tenths of a deviation, the stand-in generator
\* turns its state into.
SeededZ == <<-12, -5, 0, 5, 12>>

\* The stand-in generator is multiplicative congruential:
\* one draw advances the state s to 171 s mod 30269.
Advance(s) == (171 * s) % 30269
\* 171^k modulo 30269, by squaring.
RECURSIVE PowMod(_)
PowMod(k) ==
    IF k = 0 THEN 1
    ELSE LET h == PowMod(k \div 2)
         IN  IF k % 2 = 0 THEN (h * h) % 30269
             ELSE (((h * h) % 30269) * 171) % 30269
\* The state after k draws: Advance applied k times.
AdvanceBy(s, k) == (PowMod(k) * s) % 30269

\* np.random.seed(seed): the state is a function of the seed alone.
np_random_seed_ignored(seed, state) == state
np_random_seed(seed, state) == seed % 30269

----------------------------------------------------------------------------
(* Operations, with the draws as parameters.                               *)

\* generate_random_walk(num_steps, start_value, volatility), st the draws
\* np.random.normal returns; the run goes on at ret.
Call_generate_random_walk(num_steps, start_value, volatility, st, ret) ==
    /\ steps' = st
    /\ random_walk_prices' = WalkOf(start_value, st)
    /\ draws' = draws \o [i \in 1..Len(st) |-> "step"]
    /\ pc' = ret
    /\ UNCHANGED <<cfg, run, prev, trades, confirmed_trades, err, summary>>

\* np.random.normal refuses the arguments: the ValueError leaves main.
Raise_generate_random_walk ==
    /\ pc' = "raised"
    /\ err' = "ValueError"
    /\ UNCHANGED <<cfg, rng, run, prev, steps, random_walk_prices, trades,
                   confirmed_trades, draws, summary>>

\* Where the run stands with n iterations of a loop done.
AfterConfirmed(n) == IF n < cfg.num_confirmed THEN "confirmed" ELSE "return"
AfterIndic(n) == IF n < cfg.num_trades THEN "trades" ELSE AfterConfirmed(0)

\* One iteration of `for i in range(50)`.
IndicIteration(offset, noise, counterparty, trade_type, volume) ==
    LET i == Len(trades)
        bl_date == StartDate + offset
        date_index == bl_date - StartDate
    IN  /\ draws' = draws \o IndicDrawOrder
        /\ IF IndexOK(random_walk_prices, date_index)
           THEN /\ trades' = Append(trades,
                       IndicRecord(i, bl_date,
                                   WalkLookup(random_walk_prices, date_index),
                                   noise, counterparty, trade_type, volume))
                /\ pc' = AfterIndic(i + 1)
                /\ err' = err
           ELSE /\ trades' = trades
                /\ pc' = "raised"
                /\ err' = "IndexError"
        /\ UNCHANGED <<cfg, run, prev, steps, random_walk_prices,
                       confirmed_trades, summary>>

\* One iteration of `for i in range(num_confirmed)`.
ConfirmedIteration(offset, u_buy, u_sell, volume) ==
    LET i == Len(confirmed_trades)
        bl_date == StartDate + offset
        date_index == bl_date - StartDate
    IN  /\ draws' = draws \o ConfirmedDrawOrder
        /\ IF IndexOK(random_walk_prices, date_index)
           THEN /\ confirmed_trades' = Append(confirmed_trades,
                       ConfirmedRecord(bl_date,
                                       WalkLookup(random_walk_prices, date_index),
                                       u_buy, u_sell, volume))
                /\ pc' = AfterConfirmed(i + 1)
                /\ err' = err
           ELSE /\ confirmed_trades' = confirmed_trades
                /\ pc' = "raised"
                /\ err' = "IndexError"
        /\ UNCHANGED <<cfg, run, prev, steps, random_walk_prices, trades, summary>>

\* generate_indics returns its tables and main prints the summary.
ReturnAndPrint ==
    /\ pc = "return"
    /\ summary' = SummaryOf(trades)
    /\ pc' = "done"
    /\ UNCHANGED <<cfg, rng, run, prev, steps, random_walk_prices, trades,
                   confirmed_trades, draws, err>>

----------------------------------------------------------------------------
(* Spec: generate_indics with every draw a free choice.                    *)

InitRun ==
    /\ pc = "walk"
    /\ run = 1
    /\ prev = NoOutput
    /\ steps = <<>>
    /\ random_walk_prices = <<>>
    /\ trades = <<>>
    /\ confirmed_trades = <<>>
    /\ draws = <<>>
    /\ err = ""
    /\ summary = <<>>

Init ==
    /\ InitRun
    /\ \E e \in Entropy : rng = np_random_seed(Seed, e)
    /\ \E lc \in LoopCounts :
          cfg = [num_days |-> NumDays,
                 start_value |-> DefaultStartValue,
                 volatility |-> DefaultVolatility,
                 num_trades |-> lc[1],
                 num_confirmed |-> lc[2]]

GenerateWalk ==
    /\ pc = "walk"
    /\ ~NormalRaises(cfg.volatility, cfg.num_days)
    /\ \E st \in [1..cfg.num_days -> NormalDraws(cfg.volatility)] :
          Call_generate_random_walk(cfg.num_days, cfg.start_value,
                                    cfg.volatility, st, AfterIndic(0))
    /\ rng' = rng

IndicTrade ==
    /\ pc = "trades"
    /\ \E offset \in Randint(0, cfg.num_days),
          noise \in NormalDraws(NoiseScale),
          counterparty \in ChoiceUniform(counterparties),
          trade_type \in ChoiceDraws(TradeTypes, TradeTypeP),
          volume \in ChoiceDraws(IndicVolumes, IndicVolumeP) :
          IndicIteration(offset, noise, counterparty, trade_type, volume)
    /\ rng' = rng

ConfirmedTrade ==
    /\ pc = "confirmed"
    /\ \E offset \in Randint(0, cfg.num_days),
          u_buy \in UniformDraws(UniformLow, UniformHigh),
          u_sell \in UniformDraws(UniformLow, UniformHigh),
          volume \in ChoiceUniform(ConfirmedVolumes) :
          ConfirmedIteration(offset, u_buy, u_sell, volume)
    /\ rng' = rng

Next ==
    \/ GenerateWalk
    \/ IndicTrade
    \/ ConfirmedTrade
    \/ ReturnAndPrint

Spec == Init /\ [][Next]_vars

----------------------------------------------------------------------------
(* SpecWalk: generate_random_walk alone, on arguments from bounded sets.   *)

InitWalk ==
    /\ InitRun
    /\ \E e \in Entropy : rng = np_random_seed(Seed, e)
    /\ \E n \in -1..MaxSteps, s \in StartValues, v \in Volatilities :
          cfg = [num_days |-> n,
                 start_value |-> s,
                 volatility |-> v,
                 num_trades |-> 0,
                 num_confirmed |-> 0]

WalkReturns ==
    /\ pc = "walk"
    /\ ~NormalRaises(cfg.volatility, cfg.num_days)
    /\ \E st \in [1..cfg.num_days -> NormalDraws(cfg.volatility)] :
          Call_generate_random_walk(cfg.num_days, cfg.start_value,
                                    cfg.volatility, st, "returned")
    /\ rng' = rng

WalkRaises ==
    /\ pc = "walk"
    /\ NormalRaises(cfg.volatility, cfg.num_days)
    /\ Raise_generate_random_walk

NextWalk ==
    \/ WalkReturns
    \/ WalkRaises

SpecWalk == InitWalk /\ [][NextWalk]_vars

----------------------------------------------------------------------------
(* SpecSeeded: the program as main.py configures it, on a deterministic    *)
(* generator seeded at import, run as a process twice in a row.            *)

\* The value each sampling call returns on generator state s.
SeededNormal(scale, s) == NormalValue(scale, SeededZ[(s % Len(SeededZ)) + 1])
SeededRandint(low, high, s) == low + (s % (high - low))
SeededUniform(low, high, s) ==
    LET InSupport(u) == low <= u /\ u < high
        points == SelectSeq(UniformPoints, InSupport)
    IN  points[(s % Len(points)) + 1]
SeededChoice(a, s) == a[(s % Len(a)) + 1]
RECURSIVE WeightedIndex(_, _, _)
WeightedIndex(p, u, k) ==
    IF k = Len(p) \/ u < p[k] THEN k ELSE WeightedIndex(p, u - p[k], k + 1)
SeededChoiceP(a, p, s) == a[WeightedIndex(p, s % PartialSum(p, Len(p)), 1)]

\* The generator state the call named kind draws on, in an iteration that
\* makes its calls in the given order.
DrawState(order, kind) ==
    AdvanceBy(rng, CHOOSE k \in 1..Len(order) : order[k] = kind)

InitSeeded ==
    /\ InitRun
    /\ \E e \in Entropy : rng = np_random_seed(Seed, e)
    /\ cfg = [num_days |-> SourceNumDays,
              start_value |-> DefaultStartValue,
              volatility |-> DefaultVolatility,
              num_trades |-> NumIndicTrades,
              num_confirmed |-> NumConfirmed]

SeededWalk ==
    /\ pc = "walk"
    /\ ~NormalRaises(cfg.volatility, cfg.num_days)
    /\ Call_generate_random_walk(cfg.num_days, cfg.start_value, cfg.volatility,
           [i \in 1..cfg.num_days |-> SeededNormal(cfg.volatility, AdvanceBy(rng, i))],
           AfterIndic(0))
    /\ rng' = AdvanceBy(rng, cfg.num_days)

SeededIndicTrade ==
    /\ pc = "trades"
    /\ IndicIteration(
           SeededRandint(0, cfg.num_days, DrawState(IndicDrawOrder, "bl_date")),
           SeededNormal(NoiseScale, DrawState(IndicDrawOrder, "noise")),
           SeededChoice(counterparties, DrawState(IndicDrawOrder, "counterparty")),
           SeededChoiceP(TradeTypes, TradeTypeP, DrawState(IndicDrawOrder, "trade_type")),
           SeededChoiceP(IndicVolumes, IndicVolumeP, DrawState(IndicDrawOrder, "volume")))
    /\ rng' = AdvanceBy(rng, Len(IndicDrawOrder))

SeededConfirmedTrade ==
    /\ pc = "confirmed"
    /\ ConfirmedIteration(
           SeededRandint(0, cfg.num_days, DrawState(ConfirmedDrawOrder, "bl_date")),
           SeededUniform(UniformLow, UniformHigh, DrawState(ConfirmedDrawOrder, "buy_offset")),
           SeededUniform(UniformLow, UniformHigh, DrawState(ConfirmedDrawOrder, "sell_offset")),
           SeededChoice(ConfirmedVolumes, DrawState(ConfirmedDrawOrder, "volume")))
    /\ rng' = AdvanceBy(rng, Len(ConfirmedDrawOrder))

\* What a finished run handed to the presentation code.
Output == [walk |-> random_walk_prices, trades |-> trades,
           confirmed |-> confirmed_trades]

\* The script is started again: a new process imports the module, which
\* seeds the generator, and calls main.
Restart ==
    /\ pc = "done"
    /\ run < Runs
    /\ run' = run + 1
    /\ prev' = Output
    /\ \E e \in Entropy : rng' = np_random_seed(Seed, e)
    /\ pc' = "walk"
    /\ steps' = <<>>
    /\ random_walk_prices' = <<>>
    /\ trades' = <<>>
    /\ confirmed_trades' = <<>>
    /\ draws' = <<>>
    /\ err' = ""
    /\ summary' = <<>>
    /\ UNCHANGED cfg

NextSeeded ==
    \/ SeededWalk
    \/ SeededIndicTrade
    \/ SeededConfirmedTrade
    \/ ReturnAndPrint
    \/ Restart

SpecSeeded == InitSeeded /\ [][NextSeeded]_vars

----------------------------------------------------------------------------
(* Properties.                                                             *)

\* Day offset of a record from start_date, and the walk value there.
OffsetOf(rec) == rec.bl_date - StartDate
BaseOf(rec) == random_walk_prices[OffsetOf(rec) + 1]

\* The calls iteration k (from 1) of the indicative loop made to the random
\* source, as the log holds them after the walk's draws.
IndicCalls(k) ==
    SubSeq(draws, cfg.num_days + 5 * (k - 1) + 1, cfg.num_days + 5 * k)

\* The walk's draws are the first num_days calls and no later call.
WalkDrawsFirst ==
    pc \notin {"walk", "raised"} =>
        \A j \in 1..Len(draws) : (draws[j] = "step") <=> (j <= cfg.num_days)

\* C1 (Spec): for every indicative trade, a strictly positive
\* price_differential implies side Offer and a strictly negative one implies
\* side Bid, whatever the walk value and the noise drawn.
C1_SignDeterminesSide ==
    \A i \in 1..Len(trades) :
        /\ trades[i].price_differential > 0 => trades[i].type = "Offer"
        /\ trades[i].price_differential < 0 => trades[i].type = "Bid"

\* C2 as claimed (SpecWalk): every call of generate_random_walk with a
\* non-positive num_steps or a non-positive volatility ends in a validation
\* error raised before any draw, and returns no walk.
C2_InvalidConfigRejected ==
    (pc # "walk" /\ (cfg.num_days <= 0 \/ cfg.volatility <= 0)) =>
        /\ pc = "raised"
        /\ err = "ValueError"
        /\ draws = <<>>
        /\ random_walk_prices = <<>>

\* C2 as amended (SpecWalk): generate_random_walk raises exactly for a
\* negative num_steps or a negative volatility, the ValueError of
\* np.random.normal, with no draw taken and no walk produced; num_steps = 0
\* and volatility = 0 are accepted, and a call that returns has taken
\* num_steps draws and returns num_steps values, never a part of them.
C2_OnlyNegativeRejected ==
    /\ pc = "raised" =>
          /\ cfg.num_days < 0 \/ cfg.volatility < 0
          /\ err = "ValueError"
          /\ draws = <<>>
          /\ steps = <<>>
          /\ random_walk_prices = <<>>
    /\ pc = "returned" =>
          /\ cfg.num_days >= 0 /\ cfg.volatility >= 0
          /\ err = ""
          /\ Len(draws) = cfg.num_days
          /\ Len(random_walk_prices) = cfg.num_days

\* C2 witness: a call with num_steps = 0 has returned the empty walk, and
\* none was raised.
C2_Witness ==
    /\ pc = "returned"
    /\ cfg.num_days = 0
    /\ cfg.volatility = 0
    /\ random_walk_prices = <<>>
    /\ err = ""

\* C3 (SpecSeeded): a process run that starts from the same seed as the run
\* before it ends with the same walk, the same indicative trades and the
\* same confirmed trades.
C3_SameSeedSameOutput ==
    (run > 1 /\ pc \in {"return", "done"}) => Output = prev

\* C3 witness: the second run has finished and both runs hold full tables.
C3_Witness ==
    /\ run = 2
    /\ pc = "done"
    /\ Len(prev.walk) = SourceNumDays
    /\ Len(prev.trades) = NumIndicTrades
    /\ Len(trades) = NumIndicTrades
    /\ Len(confirmed_trades) = NumConfirmed

\* C4 (Spec): for every confirmed trade, buy_price < base_price < sell_price
\* and so buy_price < sell_price, base_price being the walk value at the
\* trade's day offset, for every pair of uniform offsets and after rounding.
C4_BuyBelowBaseBelowSell ==
    \A i \in 1..Len(confirmed_trades) :
        LET c == confirmed_trades[i]
        IN  /\ c.buy_price < BaseOf(c)
            /\ BaseOf(c) < c.sell_price
            /\ c.buy_price < c.sell_price

\* C4 witness: a confirmed trade whose two offsets are the smallest the
\* uniform draw gives, on a walk value below zero.
C4_Witness ==
    \E i \in 1..Len(confirmed_trades) :
        LET c == confirmed_trades[i]
        IN  /\ BaseOf(c) < 0
            /\ c.buy_price = Round2(BaseOf(c) - UniformLow)
            /\ c.sell_price = Round2(BaseOf(c) + UniformLow)

\* C5 (Spec): for every indicative and every confirmed trade the day offset
\* bl_date - start_date lies in 0..len(walk)-1 with len(walk) = num_days, and
\* no lookup random_walk_prices[date_index] leaves the walk (no IndexError).
C5_OffsetInsideWalk ==
    /\ err # "IndexError"
    /\ pc # "walk" => Len(random_walk_prices) = cfg.num_days
    /\ \A i \in 1..Len(trades) :
          0 <= OffsetOf(trades[i]) /\ OffsetOf(trades[i]) < Len(random_walk_prices)
    /\ \A i \in 1..Len(confirmed_trades) :
          /\ 0 <= OffsetOf(confirmed_trades[i])
          /\ OffsetOf(confirmed_trades[i]) < Len(random_walk_prices)

\* C5 witness: an indicative trade on the last day of the walk and a
\* confirmed trade on its first day.
C5_Witness ==
    /\ pc = "done"
    /\ \E i \in 1..Len(trades) :
          OffsetOf(trades[i]) = Len(random_walk_prices) - 1
    /\ \E i \in 1..Len(confirmed_trades) :
          OffsetOf(confirmed_trades[i]) = 0

\* C6 (SpecSeeded): the record created in iteration i carries identifier i,
\* so the identifiers are 0, 1, 2, ... in creation order, and when
\* generation has finished there are exactly num_trades indicative records,
\* with identifiers 0..num_trades-1, and exactly num_confirmed confirmed ones.
C6_CountAndIdentifiers ==
    /\ \A i \in 1..Len(trades) : trades[i].unique_id = i - 1
    /\ Len(trades) <= cfg.num_trades
    /\ Len(confirmed_trades) <= cfg.num_confirmed
    /\ pc \in {"return", "done"} =>
          /\ Len(trades) = cfg.num_trades
          /\ Len(confirmed_trades) = cfg.num_confirmed
          /\ {trades[i].unique_id : i \in 1..Len(trades)} = 0..(cfg.num_trades - 1)

\* C6 witness: generation has finished and the last record carries the last
\* identifier.
C6_Witness ==
    /\ pc = "done"
    /\ Len(trades) > 1
    /\ trades[Len(trades)].unique_id = cfg.num_trades - 1
    /\ Len(confirmed_trades) > 1

\* C7 as claimed (SpecSeeded): the run of the program as configured ends
\* with exactly 100 indicative rows, a printed total and summary count of
\* 100, and exactly 15 confirmed rows.
C7_HundredRows ==
    pc = "done" =>
        /\ Len(trades) = 100
        /\ summary.total = 100
        /\ summary.describe_count = 100
        /\ Len(confirmed_trades) = 15

\* C7 as amended (SpecSeeded): the run of the program as configured (seed
\* 33, a walk of 120 days from 2.0 with volatility 0.2) ends with exactly 50
\* indicative rows, a printed total and summary count of 50, and exactly 15
\* confirmed rows.
C7_FiftyRows ==
    pc = "done" =>
        /\ Len(random_walk_prices) = 120
        /\ Len(trades) = 50
        /\ summary.total = 50
        /\ summary.describe_count = 50
        /\ summary.sell + summary.buy = 50
        /\ Len(confirmed_trades) = 15

\* C7 witness: a run seeded with 33 has printed its summary.
C7_Witness ==
    /\ pc = "done"
    /\ cfg.num_days = 120 /\ cfg.start_value = 2000 /\ cfg.volatility = 200
    /\ Len(counterparties) = 6
    /\ summary # <<>>
    /\ summary.total = Len(trades)

\* C8 (SpecWalk): a call of generate_random_walk that returns has taken
\* num_steps draws and returns num_steps values, value[0] = start_value +
\* step[0] and value[i] = value[i-1] + step[i] for 0 < i < num_steps.
C8_WalkIsRunningSum ==
    pc = "returned" =>
        /\ Len(steps) = cfg.num_days
        /\ Len(random_walk_prices) = cfg.num_days
        /\ cfg.num_days > 0 =>
              random_walk_prices[1] = cfg.start_value + steps[1]
        /\ \A i \in 2..cfg.num_days :
              random_walk_prices[i] = random_walk_prices[i - 1] + steps[i]

\* C8 witness: a walk of three nonzero steps from a nonzero start, whose
\* first value is not the start value.
C8_Witness ==
    /\ pc = "returned"
    /\ cfg.num_days = 3
    /\ cfg.start_value # 0
    /\ \A i \in 1..3 : steps[i] # 0
    /\ steps[1] # steps[2]
    /\ random_walk_prices[1] # cfg.start_value

\* C9 (Spec): the volume of every indicative trade is one of 500, 950, 1000,
\* 2000 and the volume of every confirmed trade is one of 500, 750, 1000.
C9_VolumesInSets ==
    /\ \A i \in 1..Len(trades) : trades[i].volume \in {500, 950, 1000, 2000}
    /\ \A i \in 1..Len(confirmed_trades) :
          confirmed_trades[i].volume \in {500, 750, 1000}

\* C9 witness: an indicative trade of volume 950 and a confirmed trade of
\* volume 750 in one run.
C9_Witness ==
    /\ \E i \in 1..Len(trades) : trades[i].volume = 950
    /\ \E i \in 1..Len(confirmed_trades) : confirmed_trades[i].volume = 750

\* C10 as claimed (SpecSeeded): every indicative iteration draws day offset,
\* noise, side, counterparty and volume in that order (side before
\* counterparty), and all walk draws come before the first trade draw.
C10_SideBeforeCounterparty ==
    /\ WalkDrawsFirst
    /\ \A k \in 1..Len(trades) :
          IndicCalls(k) = <<"bl_date", "noise", "trade_type", "counterparty", "volume">>

\* C10 as amended (SpecSeeded): every indicative iteration draws day offset,
\* noise, counterparty, side and volume in that order (counterparty before
\* side), and all walk draws come before the first trade draw.
C10_CounterpartyBeforeSide ==
    /\ WalkDrawsFirst
    /\ \A k \in 1..Len(trades) :
          IndicCalls(k) = <<"bl_date", "noise", "counterparty", "trade_type", "volume">>

\* C10 witness: the second iteration has made its calls after the walk's.
C10_Witness ==
    /\ Len(trades) = 2
    /\ draws[cfg.num_days] = "step"
    /\ draws[cfg.num_days + 1] = "bl_date"
    /\ Len(draws) = cfg.num_days + 10

====
